---- MODULE Spec2Model ----
(***************************************************************************)
(* Print-shop backend: the orders table (db.js), the client-facing server  *)
(* (order submission, simulated status progression, payment stub) and the  *)
(* shopkeeper server (status lookup, job status update, earnings).         *)
(* Every db.query is one atomic step of the database; an async handler is  *)
(* a sequence of such steps, and handlers of different requests interleave *)
(* at their awaits.                                                        *)
(***************************************************************************)
EXTENDS Integers, Sequences, FiniteSets, Bags, TLC

\* orders: the rows of the orders table, in insertion order
\* nextSerial: the next value of the serial behind orders.id
\* today: the calendar day of CURRENT_DATE and CURRENT_TIMESTAMP
\* inflight: the handlers suspended at an await, each with its position and locals
\* response: the last response sent
VARIABLES orders, nextSerial, today, inflight, response

vars == <<orders, nextSerial, today, inflight, response>>

(***************************************************************************)
(* Bounds of the model.                                                    *)
(***************************************************************************)
\* serial values the orders table may hand out in the concurrent specifications
MaxOrders == 2
\* serial values of the specification of racing submissions
MaxRaceOrders == 4
\* submissions of the one-at-a-time specification (two-digit order ids are reached)
MaxSeqOrders == 11
\* largest copies value of the pricing specification
MaxCopies == 30
\* last calendar day the clock reaches
MaxDay == 8

\* requests whose handlers may be in flight at once
MaxInFlight == 2

(***************************************************************************)
(* Strings, as sequences of one-character strings.                         *)
(***************************************************************************)
DigitChars == <<"0", "1", "2", "3", "4", "5", "6", "7", "8", "9">>

NaN == "NaN"

\* String(n) of a non-negative integer, as the template literal renders it
RECURSIVE NumberToString(_)
NumberToString(n) ==
    IF n < 10 THEN <<DigitChars[n + 1]>>
    ELSE NumberToString(n \div 10) \o <<DigitChars[(n % 10) + 1]>>

\* `ORDER_${orderCounter}`
OrderIdOf(orderCounter) ==
    <<"O", "R", "D", "E", "R", "_">> \o NumberToString(orderCounter)

\* s.split(sep): the segments of s between occurrences of the character sep
RECURSIVE SplitFrom(_, _, _, _)
SplitFrom(s, sep, i, cur) ==
    IF i > Len(s) THEN <<cur>>
    ELSE IF s[i] = sep THEN <<cur>> \o SplitFrom(s, sep, i + 1, <<>>)
    ELSE SplitFrom(s, sep, i + 1, Append(cur, s[i]))

Split(s, sep) == SplitFrom(s, sep, 1, <<>>)

DigitValue(c) == CHOOSE d \in 0..9 : DigitChars[d + 1] = c

IsDigit(c) == \E d \in 0..9 : DigitChars[d + 1] = c

\* parseInt(s): the value of the longest prefix of decimal digits, NaN if there is none
RECURSIVE ParseDigits(_, _, _)
ParseDigits(s, i, acc) ==
    IF i > Len(s) \/ ~IsDigit(s[i]) THEN acc
    ELSE ParseDigits(s, i + 1, acc * 10 + DigitValue(s[i]))

ParseInt(s) ==
    IF Len(s) = 0 \/ ~IsDigit(s[1]) THEN NaN ELSE ParseDigits(s, 1, 0)

(***************************************************************************)
(* Pricing.  The products are exact in tenths and hundredths; Math.round   *)
(* is floor(x + 1/2) on the exact quotient num / den.                      *)
(***************************************************************************)
\* a rounding that truncates
MathTrunc(num, den) == num \div den

MathRound(num, den) == (2 * num + den) \div (2 * den)

basePricePerPage(color) == IF color = "color" THEN 2 ELSE 1

\* sizeMultiplier, in tenths
sizeMultiplier(paperSize) == IF paperSize = "A3" THEN 15 ELSE 10

\* sideMultiplier, in tenths
sideMultiplier(printSide) == IF printSide = "double-sided" THEN 18 ELSE 10

subtotalOf(body) ==
    MathRound(basePricePerPage(body.color) * sizeMultiplier(body.paperSize)
                 * sideMultiplier(body.printSide) * body.copies, 100)

taxOf(subtotal) == MathRound(subtotal * 1, 10)

totalOf(body) == subtotalOf(body) + taxOf(subtotalOf(body))

(***************************************************************************)
(* The orders table (createTables) and the queries the handlers issue.     *)
(***************************************************************************)
NULL == "NULL"

\* a row as INSERT stores it: id from the serial, status by its column default,
\* the payment columns null, created_at the current timestamp (its calendar day)
NewRow(id, orderId, body, total, createdAt) ==
    [id |-> id, order_id |-> orderId, name |-> body.name, copies |-> body.copies,
     paper_size |-> body.paperSize, print_side |-> body.printSide,
     color |-> body.color, total |-> total, status |-> "pending",
     payment_method |-> NULL, payment_status |-> NULL,
     file_info |-> body.file, created_at |-> createdAt]

\* the read ordered ascending: the first order instead of the last
SelectFirstOrder(table) ==
    SelectSeq(table, LAMBDA o : \A i \in DOMAIN table : table[i].id >= o.id)

\* SELECT order_id FROM orders ORDER BY id DESC LIMIT 1
SelectLastOrder(table) ==
    SelectSeq(table, LAMBDA o : \A i \in DOMAIN table : table[i].id <= o.id)

\* SELECT * FROM orders WHERE order_id = $1
SelectByOrderId(table, orderId) ==
    SelectSeq(table, LAMBDA o : o.order_id = orderId)

\* a table without the unique constraint
NoUniqueConstraint(table, orderId) == FALSE

\* order_id ... UNIQUE: the insert of a present order_id is refused
UniqueViolation(table, orderId) ==
    \E i \in DOMAIN table : table[i].order_id = orderId

\* an update without its WHERE clause
UpdateStatusEveryRow(table, status, orderId) ==
    [i \in DOMAIN table |-> [table[i] EXCEPT !.status = status]]

\* UPDATE orders SET status = $1 WHERE order_id = $2
UpdateStatus(table, status, orderId) ==
    [i \in DOMAIN table |->
        IF table[i].order_id = orderId
        THEN [table[i] EXCEPT !.status = status]
        ELSE table[i]]

\* UPDATE orders SET payment_method = $1, payment_status = $2 WHERE order_id = $3
UpdatePayment(table, paymentMethod, paymentStatus, orderId) ==
    [i \in DOMAIN table |->
        IF table[i].order_id = orderId
        THEN [table[i] EXCEPT !.payment_method = paymentMethod,
                              !.payment_status = paymentStatus]
        ELSE table[i]]

RECURSIVE SumTotals(_)
SumTotals(rows) ==
    IF Len(rows) = 0 THEN 0 ELSE Head(rows).total + SumTotals(Tail(rows))

\* SELECT SUM(total) ... WHERE status = 'completed' AND created_at >= since:
\* one row, whose total is null when no order qualifies
SumCompletedSince(table, since) ==
    LET rows == SelectSeq(table,
                    LAMBDA o : o.status = "completed" /\ o.created_at >= since)
    IN  [isNull |-> Len(rows) = 0, total |-> SumTotals(rows)]

\* INTERVAL '7 days'
WeekInterval == 7

\* parseFloat(result.total || 0).toFixed(2), the sum being one of whole totals
ToFixed2(result) ==
    NumberToString(IF result.isNull THEN 0 ELSE result.total) \o <<".", "0", "0">>

(***************************************************************************)
(* Responses and the handlers in flight.                                   *)
(***************************************************************************)
\* the last response sent: the route it answers, the HTTP status and the body's
\* orderId, status and remaining fields
Response(route, code, orderId, status, data) ==
    [route |-> route, code |-> code, orderId |-> orderId, status |-> status,
     data |-> data]

\* a body without orderId, and one without earnings and transaction fields
NoOrderId == <<>>

NoData == [today |-> <<>>, weekly |-> <<>>, transactionId |-> FALSE]

NoResponse == Response(NULL, 0, NoOrderId, NULL, NoData)

validStatuses == <<"pending", "processing", "printing", "ready", "completed">>

indexOf(seq, x) ==
    IF \E i \in DOMAIN seq : seq[i] = x
    THEN (CHOOSE i \in DOMAIN seq : seq[i] = x) - 1
    ELSE -1

\* Math.random() > 0.8, the draw in hundredths
ProgressThreshold == 80

Init ==
    /\ orders = <<>>
    /\ nextSerial = 1
    /\ today = 0
    /\ inflight = EmptyBag
    /\ response = NoResponse

\* a request arrives while the model has room for its handler
Room == BagCardinality(inflight) < MaxInFlight

\* the handler suspends at an await, with its locals k
Await(k) == inflight' = inflight (+) SetToBag({k})

\* the suspended handler k resumes and runs to its response
Resume(k) == inflight' = inflight (-) SetToBag({k})

Suspended(at) == {k \in BagToSet(inflight) : k.at = at}

(***************************************************************************)
(* POST /api/orders                                                        *)
(***************************************************************************)
\* a validation that forgets copies
MissingOrderDetailsButCopies(body) ==
    \/ body.file = ""
    \/ body.name = ""
    \/ body.paperSize = ""
    \/ body.printSide = ""
    \/ body.color = ""

\* !file || !name || !copies || !paperSize || !printSide || !color
MissingOrderDetails(body) ==
    \/ body.file = ""
    \/ body.name = ""
    \/ body.copies = 0
    \/ body.paperSize = ""
    \/ body.printSide = ""
    \/ body.color = ""

nextOrderCounter(lastOrder) ==
    IF Len(lastOrder) > 0
    THEN ParseInt(Split(lastOrder[1].order_id, "_")[2]) + 1
    ELSE 1

\* an id assignment that counts the handlers already in flight
OrderLocalsReserving(body, lastOrder) ==
    [at |-> "orders_insert",
     lastOrder |-> lastOrder,
     orderId |-> OrderIdOf(nextOrderCounter(lastOrder) + BagCardinality(inflight)),
     body |-> body,
     total |-> totalOf(body)]

\* the locals of a submission after its read: the rows read, the id, the price
OrderLocals(body, lastOrder) ==
    [at |-> "orders_insert",
     lastOrder |-> lastOrder,
     orderId |-> OrderIdOf(nextOrderCounter(lastOrder)),
     body |-> body,
     total |-> totalOf(body)]

\* validation, the read of the last order, the id and the price
PostOrdersSelect(body) ==
    /\ Room
    /\ IF MissingOrderDetails(body)
       THEN /\ response' = Response("POST /api/orders", 400, NoOrderId, NULL, NoData)
            /\ UNCHANGED <<orders, nextSerial, today, inflight>>
       ELSE /\ Await(OrderLocals(body, SelectLastOrder(orders)))
            /\ UNCHANGED <<orders, nextSerial, today, response>>

\* the INSERT ... RETURNING * and the 201 response, or the 500 of the catch;
\* the serial is drawn for the row's default before the unique index refuses it
PostOrdersInsert(k) ==
    /\ k \in Suspended("orders_insert")
    /\ Resume(k)
    /\ nextSerial' = nextSerial + 1
    /\ IF UniqueViolation(orders, k.orderId)
       THEN /\ response' = Response("POST /api/orders", 500, NoOrderId, NULL, NoData)
            /\ UNCHANGED <<orders, today>>
       ELSE LET row == NewRow(nextSerial, k.orderId, k.body, k.total, today)
            IN  /\ orders' = Append(orders, row)
                /\ response' =
                      Response("POST /api/orders", 201, row.order_id, row.status, NoData)
                /\ UNCHANGED today

(***************************************************************************)
(* GET /api/status/:orderId, the pure lookup of the shopkeeper server      *)
(***************************************************************************)
GetStatusLookup(orderId) ==
    /\ Room
    /\ LET rows == SelectByOrderId(orders, orderId)
       IN  response' =
              IF Len(rows) = 0
              THEN Response("GET /api/status", 404, NoOrderId, NULL, NoData)
              ELSE Response("GET /api/status", 200, rows[1].order_id,
                            rows[1].status, NoData)
    /\ UNCHANGED <<orders, nextSerial, today, inflight>>

(***************************************************************************)
(* GET /api/status/:orderId with the simulated progression                 *)
(***************************************************************************)
\* the status the poll writes when the draw exceeds the threshold, NULL when none
progressTo(status, randomChance) ==
    LET currentStatusIndex == indexOf(validStatuses, status)
    IN  IF currentStatusIndex < Len(validStatuses) - 1
           /\ randomChance > ProgressThreshold
        THEN validStatuses[(currentStatusIndex + 1) + 1]
        ELSE NULL

\* the SELECT, the 404, the draw; the response when nothing is to be written
GetStatusPollSelect(orderId, randomChance) ==
    /\ Room
    /\ LET rows == SelectByOrderId(orders, orderId)
       IN  IF Len(rows) = 0
           THEN /\ response' = Response("GET /api/status poll", 404, NoOrderId, NULL, NoData)
                /\ UNCHANGED inflight
           ELSE IF progressTo(rows[1].status, randomChance) = NULL
           THEN /\ response' = Response("GET /api/status poll", 200,
                                        rows[1].order_id, rows[1].status, NoData)
                /\ UNCHANGED inflight
           ELSE /\ Await([at |-> "status_update", orderId |-> orderId,
                          order_id |-> rows[1].order_id,
                          newStatus |-> progressTo(rows[1].status, randomChance)])
                /\ UNCHANGED response
    /\ UNCHANGED <<orders, nextSerial, today>>

\* the UPDATE of the new status and the response
GetStatusPollUpdate(k) ==
    /\ k \in Suspended("status_update")
    /\ Resume(k)
    /\ orders' = UpdateStatus(orders, k.newStatus, k.orderId)
    /\ response' = Response("GET /api/status poll", 200, k.order_id, k.newStatus, NoData)
    /\ UNCHANGED <<nextSerial, today>>

(***************************************************************************)
(* PUT /api/jobs/:orderId/status                                           *)
(***************************************************************************)
\* a validation that only refuses an absent status
InvalidStatusAbsentOnly(status) == status = ""

\* !status || !validStatuses.includes(status)
InvalidStatus(status) ==
    status = "" \/ indexOf(validStatuses, status) = -1

PutJobStatus(orderId, status) ==
    /\ Room
    /\ IF InvalidStatus(status)
       THEN /\ response' = Response("PUT /api/jobs/status", 400, NoOrderId, NULL, NoData)
            /\ UNCHANGED orders
       ELSE LET rows == SelectByOrderId(UpdateStatus(orders, status, orderId), orderId)
            IN  /\ orders' = UpdateStatus(orders, status, orderId)
                /\ response' =
                      IF Len(rows) = 0
                      THEN Response("PUT /api/jobs/status", 404, NoOrderId, NULL, NoData)
                      ELSE Response("PUT /api/jobs/status", 200, rows[1].order_id,
                                    rows[1].status, NoData)
    /\ UNCHANGED <<nextSerial, today, inflight>>

(***************************************************************************)
(* GET /api/earnings                                                       *)
(***************************************************************************)
\* the sum since CURRENT_DATE
GetEarningsToday ==
    /\ Room
    /\ Await([at |-> "earnings_weekly",
              todayEarnings |-> SumCompletedSince(orders, today)])
    /\ UNCHANGED <<orders, nextSerial, today, response>>

\* the sum since CURRENT_DATE - INTERVAL '7 days', and the response
GetEarningsWeekly(k) ==
    /\ k \in Suspended("earnings_weekly")
    /\ Resume(k)
    /\ response' = Response("GET /api/earnings", 200, NoOrderId, NULL,
            [today |-> ToFixed2(k.todayEarnings),
             weekly |-> ToFixed2(SumCompletedSince(orders, today - WeekInterval)),
             transactionId |-> FALSE])
    /\ UNCHANGED <<orders, nextSerial, today>>

(***************************************************************************)
(* POST /api/payment                                                       *)
(***************************************************************************)
\* a stub that marks every payment successful
paymentStatusAlwaysSuccess(paymentMethod) == "success"

paymentStatusOf(paymentMethod) ==
    IF paymentMethod = "online" THEN "success" ELSE "pending"

\* the SELECT and the 404; amount is read from the body and never used
PostPaymentSelect(orderId, paymentMethod, amount) ==
    /\ Room
    /\ IF Len(SelectByOrderId(orders, orderId)) = 0
       THEN /\ response' = Response("POST /api/payment", 404, NoOrderId, NULL, NoData)
            /\ UNCHANGED inflight
       ELSE /\ Await([at |-> "payment_update", orderId |-> orderId,
                      paymentMethod |-> paymentMethod,
                      paymentStatus |-> paymentStatusOf(paymentMethod)])
            /\ UNCHANGED response
    /\ UNCHANGED <<orders, nextSerial, today>>

\* the UPDATE of the payment columns and the response
PostPaymentUpdate(k) ==
    /\ k \in Suspended("payment_update")
    /\ Resume(k)
    /\ orders' = UpdatePayment(orders, k.paymentMethod, k.paymentStatus, k.orderId)
    /\ response' = Response("POST /api/payment", 200, NoOrderId, k.paymentStatus,
            [NoData EXCEPT !.transactionId = k.paymentMethod = "online"])
    /\ UNCHANGED <<nextSerial, today>>

(***************************************************************************)
(* Queries that throw (the connection is lost): the catch of the handler   *)
(* answers 500 and nothing is written.                                     *)
(***************************************************************************)
\* the first query of a handler throws
FirstQueryFails(route) ==
    /\ Room
    /\ response' = Response(route, 500, NoOrderId, NULL, NoData)
    /\ UNCHANGED <<orders, nextSerial, today, inflight>>

\* the query a suspended handler awaits throws
AwaitedQueryFails(k, route) ==
    /\ k \in BagToSet(inflight)
    /\ Resume(k)
    /\ response' = Response(route, 500, NoOrderId, NULL, NoData)
    /\ UNCHANGED <<orders, today>>

\* the read of the last order throws
PostOrdersSelectFails(body) ==
    /\ ~MissingOrderDetails(body)
    /\ FirstQueryFails("POST /api/orders")

\* the insert throws for a reason other than the unique constraint; the serial
\* may or may not have been drawn
PostOrdersInsertFails(k) ==
    /\ k \in Suspended("orders_insert")
    /\ AwaitedQueryFails(k, "POST /api/orders")
    /\ nextSerial' \in {nextSerial, nextSerial + 1}

\* midnight passes
Tick ==
    /\ today < MaxDay
    /\ today' = today + 1
    /\ UNCHANGED <<orders, nextSerial, inflight, response>>

(***************************************************************************)
(* Requests and specifications.                                            *)
(***************************************************************************)
Range(seq) == {seq[i] : i \in DOMAIN seq}

ValidBody ==
    [file |-> "f.pdf", name |-> "Alice", copies |-> 10, paperSize |-> "A3",
     printSide |-> "double-sided", color |-> "color"]

OrderBodies ==
    {ValidBody,
     [ValidBody EXCEPT !.file = ""], [ValidBody EXCEPT !.name = ""],
     [ValidBody EXCEPT !.copies = 0], [ValidBody EXCEPT !.paperSize = ""],
     [ValidBody EXCEPT !.printSide = ""], [ValidBody EXCEPT !.color = ""]}

\* a complete body and one without copies
SomeBodies == {ValidBody, [ValidBody EXCEPT !.copies = 0]}

\* the id of the first order, and one that no order of the model is given
OrderIdParams == {OrderIdOf(1), OrderIdOf(99)}

StatusParams == Range(validStatuses) \cup {"", "cancelled"}

PaymentMethods == {"online", "cash"}

Amounts == {0, 59}

RandomDraws == {50, 90}

\* order submissions that are between their read and their insert
InFlightOrders ==
    BagCardinality([k \in Suspended("orders_insert") |-> CopiesIn(k, inflight)])

SubmitOrder(body) ==
    /\ nextSerial + InFlightOrders <= MaxOrders
    /\ PostOrdersSelect(body)

\* the client-facing and shopkeeper handlers over one database, every query
\* answered
Next ==
    \/ \E body \in SomeBodies : SubmitOrder(body)
    \/ \E k \in BagToSet(inflight) : PostOrdersInsert(k)
    \/ \E orderId \in OrderIdParams : GetStatusLookup(orderId)
    \/ \E orderId \in OrderIdParams, randomChance \in RandomDraws :
          GetStatusPollSelect(orderId, randomChance)
    \/ \E k \in BagToSet(inflight) : GetStatusPollUpdate(k)
    \/ \E orderId \in OrderIdParams, status \in StatusParams :
          PutJobStatus(orderId, status)
    \/ \E orderId \in OrderIdParams, paymentMethod \in PaymentMethods,
          amount \in Amounts :
          PostPaymentSelect(orderId, paymentMethod, amount)
    \/ \E k \in BagToSet(inflight) : PostPaymentUpdate(k)

Spec == Init /\ [][Next]_vars

(***************************************************************************)
(* Order submissions alone, racing each other.                             *)
(***************************************************************************)
SubmitOrderRacing(body) ==
    /\ nextSerial + InFlightOrders <= MaxRaceOrders
    /\ PostOrdersSelect(body)

NextRace ==
    \/ \E body \in OrderBodies : SubmitOrderRacing(body)
    \/ \E k \in BagToSet(inflight) : PostOrdersInsert(k)
    \/ \E orderId \in OrderIdParams, status \in StatusParams :
          PutJobStatus(orderId, status)

SpecRace == Init /\ [][NextRace]_vars

(***************************************************************************)
(* Racing submissions whose queries may throw.                             *)
(***************************************************************************)
NextFault ==
    \/ \E body \in OrderBodies : SubmitOrderRacing(body)
    \/ \E k \in BagToSet(inflight) : PostOrdersInsert(k)
    \/ \E body \in OrderBodies : PostOrdersSelectFails(body)
    \/ \E k \in BagToSet(inflight) : PostOrdersInsertFails(k)

SpecFault == Init /\ [][NextFault]_vars

(***************************************************************************)
(* Order submissions handled one at a time.                                *)
(***************************************************************************)
SubmitOrderAlone(body) ==
    /\ InFlightOrders = 0
    /\ nextSerial <= MaxSeqOrders
    /\ PostOrdersSelect(body)

NextSeq ==
    \/ \E body \in OrderBodies : SubmitOrderAlone(body)
    \/ \E k \in BagToSet(inflight) : PostOrdersInsert(k)
    \/ \E orderId \in OrderIdParams, status \in StatusParams :
          PutJobStatus(orderId, status)

SpecSeq == Init /\ [][NextSeq]_vars

(***************************************************************************)
(* The price of a submission, over the option combinations and copies.     *)
(***************************************************************************)
PriceBodies ==
    [file : {"f.pdf"}, name : {"Alice"}, copies : (-3)..MaxCopies,
     paperSize : {"A3", "A4"}, printSide : {"double-sided", "single-sided"},
     color : {"color", "bw"}]

SubmitFirstOrder(body) ==
    /\ orders = <<>>
    /\ inflight = EmptyBag
    /\ PostOrdersSelect(body)

NextPrice ==
    \/ \E body \in PriceBodies : SubmitFirstOrder(body)
    \/ \E k \in BagToSet(inflight) : PostOrdersInsert(k)

SpecPrice == Init /\ [][NextPrice]_vars

(***************************************************************************)
(* Earnings over the calendar.                                             *)
(***************************************************************************)
EarningsOrderIds == {OrderIdOf(1), OrderIdOf(2)}

EarningsStatuses == {"completed", "ready"}

NextEarn ==
    \/ Tick
    \/ SubmitOrder(ValidBody)
    \/ \E k \in BagToSet(inflight) : PostOrdersInsert(k)
    \/ \E orderId \in EarningsOrderIds, status \in EarningsStatuses :
          PutJobStatus(orderId, status)
    \/ GetEarningsToday
    \/ \E k \in BagToSet(inflight) : GetEarningsWeekly(k)

SpecEarn == Init /\ [][NextEarn]_vars

(***************************************************************************)
(* Submissions and status polls alone.                                     *)
(***************************************************************************)
NextPoll ==
    \/ SubmitOrder(ValidBody)
    \/ \E k \in BagToSet(inflight) : PostOrdersInsert(k)
    \/ \E orderId \in OrderIdParams, randomChance \in RandomDraws :
          GetStatusPollSelect(orderId, randomChance)
    \/ \E k \in BagToSet(inflight) : GetStatusPollUpdate(k)

SpecPoll == Init /\ [][NextPoll]_vars

(***************************************************************************)
(* Properties.                                                             *)
(***************************************************************************)
\* the numeric suffix n of an order_id ORDER_<n>
SuffixOf(orderId) == ParseInt(Split(orderId, "_")[2])

\* the submissions between their read and their insert
Submissions == Suspended("orders_insert")

\* C1: in every interleaving of submissions the stored orders have pairwise
\* different order_ids, and of two stored orders the one with the larger internal
\* id has the strictly larger numeric suffix.
C1_OrderIdUniqueMonotonic ==
    \A i, j \in DOMAIN orders :
        /\ i # j => orders[i].order_id # orders[j].order_id
        /\ orders[i].id > orders[j].id =>
              SuffixOf(orders[i].order_id) > SuffixOf(orders[j].order_id)

\* three orders are stored after a racing submission lost its insert
C1_Witness ==
    /\ Len(orders) >= 3
    /\ nextSerial > Len(orders) + 1

\* C2: with submissions handled one at a time from an empty table, every insert
\* succeeds and the k-th stored order is ORDER_k, the first being ORDER_1; the
\* 201 response carries the order_id of the order just stored.
C2_SequentialIds ==
    /\ nextSerial = Len(orders) + 1
    /\ \A k \in DOMAIN orders :
          /\ orders[k].id = k
          /\ orders[k].order_id = OrderIdOf(k)
          /\ SuffixOf(orders[k].order_id) = k
    /\ Len(orders) >= 1 => orders[1].order_id = <<"O", "R", "D", "E", "R", "_", "1">>
    /\ Len(orders) >= 10 =>
          orders[10].order_id = <<"O", "R", "D", "E", "R", "_", "1", "0">>
    /\ response.code = 201 => response.orderId = orders[Len(orders)].order_id

\* the last of the sequential submissions is stored, under a two-digit id
C2_Witness ==
    /\ Len(orders) = MaxSeqOrders
    /\ Len(orders[Len(orders)].order_id) = 8

\* the successor of a status in the chain, NULL for completed
SuccessorOf(status) ==
    CASE status = "pending" -> "processing"
      [] status = "processing" -> "printing"
      [] status = "printing" -> "ready"
      [] status = "ready" -> "completed"
      [] OTHER -> NULL

\* C3: every status change a poll writes moves the stored status to its
\* immediate successor in the chain: never backward, never skipping, never out
\* of completed.
C3_PollAdvancesOneStep ==
    [][\A k \in Suspended("status_update") :
          GetStatusPollUpdate(k) =>
              \A i \in DOMAIN orders :
                  orders'[i].status # orders[i].status =>
                      /\ orders[i].status # "completed"
                      /\ orders'[i].status = SuccessorOf(orders[i].status)]_vars

\* C4: a status update whose status is absent or outside the five values is
\* answered 400 and leaves every stored row unchanged.
C4_InvalidStatusRejected ==
    [][\A orderId \in OrderIdParams, status \in StatusParams :
          (/\ status \notin {"pending", "processing", "printing", "ready", "completed"}
           /\ PutJobStatus(orderId, status))
          => (response'.code = 400 /\ orders' = orders)]_vars

\* an invalid status update was answered 400 while a completed order is stored
C4_Witness ==
    /\ response.route = "PUT /api/jobs/status"
    /\ response.code = 400
    /\ \E i \in DOMAIN orders : orders[i].status = "completed"

\* C5: a status lookup (either variant), a status update with a valid status
\* or a payment addressed to an order_id that no stored order has is answered 404
\* at once and leaves the orders table unchanged.
C5_UnknownOrderNotFound ==
    [][\A orderId \in OrderIdParams :
          (/\ \A i \in DOMAIN orders : orders[i].order_id # orderId
           /\ \/ GetStatusLookup(orderId)
              \/ \E randomChance \in RandomDraws :
                    GetStatusPollSelect(orderId, randomChance)
              \/ \E status \in Range(validStatuses) :
                    PutJobStatus(orderId, status)
              \/ \E paymentMethod \in PaymentMethods, amount \in Amounts :
                    PostPaymentSelect(orderId, paymentMethod, amount))
          => (/\ response'.code = 404
              /\ inflight' = inflight
              /\ orders' = orders
              /\ nextSerial' = nextSerial)]_vars

\* a request for an unknown order has been answered 404 while orders are stored
C5_Witness ==
    /\ response.code = 404
    /\ Len(orders) > 0
    /\ \A i \in DOMAIN orders : orders[i].order_id # OrderIdOf(99)

\* the price per copy of the eight option combinations, in hundredths
ExpectedRate(color, paperSize, printSide) ==
    CASE color = "color" /\ paperSize = "A3" /\ printSide = "double-sided" -> 540
      [] color = "color" /\ paperSize = "A3" /\ printSide # "double-sided" -> 300
      [] color = "color" /\ paperSize # "A3" /\ printSide = "double-sided" -> 360
      [] color = "color" /\ paperSize # "A3" /\ printSide # "double-sided" -> 200
      [] color # "color" /\ paperSize = "A3" /\ printSide = "double-sided" -> 270
      [] color # "color" /\ paperSize = "A3" /\ printSide # "double-sided" -> 150
      [] color # "color" /\ paperSize # "A3" /\ printSide = "double-sided" -> 180
      [] OTHER -> 100

\* num / den rounded to the nearest integer, halves upward (num >= 0, den > 0)
RoundHalfUp(num, den) ==
    CHOOSE k \in 0..(num + 1) :
        /\ 2 * den * k <= 2 * num + den
        /\ 2 * num + den < 2 * den * (k + 1)

ExpectedSubtotal(o) ==
    RoundHalfUp(ExpectedRate(o.color, o.paper_size, o.print_side) * o.copies, 100)

\* C6: the stored total of an accepted submission with a positive copies is
\* subtotal + tax, subtotal = round(base * sizeMult * sideMult * copies) and
\* tax = round(subtotal * 0.10), halves rounded upward; it equals
\* round(subtotal * 1.1); 10 copies, A3, double-sided, color give 59.
C6_TotalFormula ==
    \A i \in DOMAIN orders :
        LET o == orders[i] IN
        o.copies > 0 =>
            /\ o.total = ExpectedSubtotal(o) + RoundHalfUp(ExpectedSubtotal(o), 10)
            /\ o.total = RoundHalfUp(ExpectedSubtotal(o) * 11, 10)
            /\ (o.copies = 10 /\ o.color = "color" /\ o.paper_size = "A3"
                   /\ o.print_side = "double-sided") => o.total = 59

\* a stored order whose subtotal is a half that was rounded upward: 5 copies,
\* A3, double-sided, not color: 13.5 -> 14, tax 1
C6_Witness ==
    \E i \in DOMAIN orders :
        /\ orders[i].copies = 5
        /\ orders[i].paper_size = "A3"
        /\ orders[i].print_side = "double-sided"
        /\ orders[i].color = "bw"
        /\ orders[i].total = 15

\* the sum of total over the completed orders created on the days from..to
CompletedBetween(table, from, to) ==
    SumTotals(SelectSeq(table,
        LAMBDA o : o.status = "completed" /\ o.created_at \in from..to))

Money(amount) == NumberToString(amount) \o <<".", "0", "0">>

\* C7: the earnings answer has today = the sum of total over the completed
\* orders created on the current day and weekly = that sum over the trailing 7
\* days, today included; other statuses never contribute and an empty window
\* gives zero.
C7_Earnings ==
    [][/\ GetEarningsToday =>
            \E k \in BagToSet(inflight') :
                /\ inflight' = inflight (+) SetToBag({k})
                /\ ToFixed2(k.todayEarnings)
                      = Money(CompletedBetween(orders, today, today))
       /\ \A k \in Suspended("earnings_weekly") :
            GetEarningsWeekly(k) =>
                /\ response'.data.today = ToFixed2(k.todayEarnings)
                /\ response'.data.weekly
                      = Money(CompletedBetween(orders, today - (WeekInterval - 1),
                                               today))]_vars

\* C8: a failed submission leaves the orders table unchanged: one missing any
\* of file, name, copies, paperSize, printSide, color is answered 400; one whose
\* read or insert throws, the unique constraint on order_id included, is
\* answered 500; neither stores a row nor modifies one.
C8_FailedSubmissionNoChange ==
    [][/\ \A body \in OrderBodies :
            /\ (/\ \/ body.file = ""
                   \/ body.name = ""
                   \/ body.copies = 0
                   \/ body.paperSize = ""
                   \/ body.printSide = ""
                   \/ body.color = ""
                /\ PostOrdersSelect(body))
               => (response'.code = 400 /\ inflight' = inflight /\ orders' = orders)
            /\ PostOrdersSelectFails(body)
               => (response'.code = 500 /\ inflight' = inflight /\ orders' = orders)
       /\ \A k \in Submissions :
            /\ (/\ PostOrdersInsert(k)
                /\ \E i \in DOMAIN orders : orders[i].order_id = k.orderId)
               => (response'.code = 500 /\ orders' = orders)
            /\ PostOrdersInsertFails(k)
               => (response'.code = 500 /\ orders' = orders)
       /\ (response' # response /\ response'.code # 201)
            => (response'.code \in {400, 500} /\ orders' = orders)]_vars

\* a submission lost its insert to the unique constraint, with orders stored
C8_Witness ==
    /\ response.route = "POST /api/orders"
    /\ response.code = 500
    /\ Len(orders) > 1
    /\ nextSerial > Len(orders) + 1

\* C9: a payment for a stored order sets its payment_method to the supplied
\* method and its payment_status to success exactly for the method online,
\* otherwise to pending; the response status is the stored payment_status; the
\* amount has no influence; status, total and the other rows are left alone.
C9_PaymentRecorded ==
    [][/\ \A orderId \in OrderIdParams, paymentMethod \in PaymentMethods,
            amount \in Amounts :
            (/\ \E i \in DOMAIN orders : orders[i].order_id = orderId
             /\ PostPaymentSelect(orderId, paymentMethod, amount))
            => /\ orders' = orders
               /\ \E k \in BagToSet(inflight') :
                     /\ inflight' = inflight (+) SetToBag({k})
                     /\ k.at = "payment_update"
                     /\ k.orderId = orderId
                     /\ k.paymentMethod = paymentMethod
                     /\ k.paymentStatus = "success" <=> paymentMethod = "online"
                     /\ k.paymentStatus = "pending" <=> paymentMethod # "online"
       /\ \A k \in Suspended("payment_update") :
            PostPaymentUpdate(k)
            => /\ response'.code = 200
               /\ response'.status = k.paymentStatus
               /\ Len(orders') = Len(orders)
               /\ \A i \in DOMAIN orders :
                     IF orders[i].order_id = k.orderId
                     THEN /\ orders'[i].payment_method = k.paymentMethod
                          /\ orders'[i].payment_status = response'.status
                          /\ orders'[i] =
                               [orders[i] EXCEPT
                                   !.payment_method = orders'[i].payment_method,
                                   !.payment_status = orders'[i].payment_status]
                     ELSE orders'[i] = orders[i]]_vars

\* a cash payment was answered pending and stands recorded on a stored order
\* that is not the only one
C9_Witness ==
    /\ response.route = "POST /api/payment"
    /\ response.code = 200
    /\ response.status = "pending"
    /\ Len(orders) > 1
    /\ \E i \in DOMAIN orders :
          /\ orders[i].payment_method = "cash"
          /\ orders[i].payment_status = "pending"

\* C10: the id assignment is not atomic: two submissions that are both between
\* their read and their insert and read the same last order hold the same
\* order_id.
C10_SameReadSameId ==
    \A a, b \in Submissions :
        a.lastOrder = b.lastOrder => a.orderId = b.orderId

\* two submissions in flight that both read the stored last order and computed
\* the same next order_id
C10_Witness ==
    \E k \in Submissions :
        /\ CopiesIn(k, inflight) >= 2
        /\ Len(k.lastOrder) = 1
        /\ k.lastOrder = SelectLastOrder(orders)
        /\ k.orderId = OrderIdOf(Len(orders) + 1)

====
